---- MODULE Spec2Model ----
(***************************************************************************)
(* Model of scripts/era5_to_parquet.py: the flattener process_netcdf, the  *)
(* time transform convert_era5_time, and the orchestrator main in its      *)
(* parallel and sequential modes, writing timestamp-partitioned output.    *)
(*                                                                         *)
(* Strings that are paths are modelled as the sequence of their segments   *)
(* between "/" ("gs://b/x" is <<"gs:", "", "b", "x">>).  Floats are        *)
(* records [nan, v]; raw NetCDF cells are records [masked, v].             *)
(***************************************************************************)
EXTENDS Integers, Sequences, FiniteSets, TLC

\* ------------------------------------------------------------------ bounds
NDates == 3       \* longest date range (days)
MaxDim == 2       \* longest dimension array of a grid
HourWindow == 2   \* hours sampled on each side of every calendar landmark

VARIABLES
  \* command line and environment of the script
  in_prefix, ndates, limit, use_parallel, overwriteMode, exists, mask,
  \* position and locals of main
  pc, cur, fileOpen, file_content, ds, rows, taskRows, df,
  \* observable effects
  store, log, trace, fault,
  \* consecutive invocations: number of this run, the store it started from,
  \* and what the first run left
  run, store0, first,
  \* inputs and results of the pure-function specifications
  grid, flimit, result, ha, hb, ta, tb

pipeVars == <<in_prefix, ndates, limit, use_parallel, overwriteMode, exists,
              mask, pc, cur, fileOpen, file_content, ds, rows, taskRows, df,
              store, log, trace, fault, run, store0, first>>
flatVars == <<grid, flimit, result>>
timeVars == <<ha, hb, ta, tb>>
vars == <<pipeVars, flatVars, timeVars>>

Min(a, b) == IF a <= b THEN a ELSE b
Max(a, b) == IF a >= b THEN a ELSE b

\* ------------------------------------------------------------ value model
\* An optional integer: None, or the integer n
None == [set |-> FALSE, n |-> 0]
Some(n) == [set |-> TRUE, n |-> n]

Float(v) == [nan |-> FALSE, v |-> v]
NaN == [nan |-> TRUE, v |-> 0]
Cell(v) == [masked |-> FALSE, v |-> v]
MaskedCell == [masked |-> TRUE, v |-> 0]

\* float(x) of a numpy scalar: a masked element converts to nan
PyFloat(c) == IF c.masked THEN NaN ELSE Float(c.v)

\* int(x) of a numpy scalar: raises on a masked element, else the integer
PyIntRaises(c) == c.masked
PyInt(c) == c.v

\* mutant of Slice: the stop is taken one element too far
SliceOffByOne(s, stop) ==
  IF ~stop.set THEN s
  ELSE IF stop.n >= 0 THEN SubSeq(s, 1, Min(stop.n + 1, Len(s)))
  ELSE SubSeq(s, 1, Max(0, Len(s) + stop.n + 1))

\* seq[:stop], Python slice semantics (None, non-negative and negative stop)
Slice(s, stop) ==
  IF ~stop.set THEN s
  ELSE IF stop.n >= 0 THEN SubSeq(s, 1, Min(stop.n, Len(s)))
  ELSE SubSeq(s, 1, Max(0, Len(s) + stop.n))

\* ------------------------------------------------------------ source grid
\* Coordinates and data of the file of date d; every cell value is distinct.
TimeAt(d, t) == 24 * (d - 1) + (t - 1)
LatAt(i) == 90 - (i - 1)
LonAt(j) == j - 1
TpAt(d, t, i, j) == 1000 * d + 100 * t + 10 * i + j

\* mk is "none", "tp" (first precipitation cell is a fill value) or "time"
MakeGrid(d, T, La, Lo, mk) ==
  [ time      |-> [t \in 1..T |->
                     IF mk = "time" /\ t = 1 THEN MaskedCell
                     ELSE Cell(TimeAt(d, t))],
    latitude  |-> [i \in 1..La |-> Cell(LatAt(i))],
    longitude |-> [j \in 1..Lo |-> Cell(LonAt(j))],
    tp        |-> [t \in 1..T |-> [i \in 1..La |-> [j \in 1..Lo |->
                     IF mk = "tp" /\ t = 1 /\ i = 1 /\ j = 1 THEN MaskedCell
                     ELSE Cell(TpAt(d, t, i, j))]]] ]

\* ------------------------------------------------------------ process_netcdf
RECURSIVE LonLoop(_, _, _, _, _, _, _)
LonLoop(time, lats, lons, precip, file_path, t_idx, ij) ==
  LET lat_idx == ij[1]
      lon_idx == ij[2]
  IN IF lon_idx > Len(lons) THEN <<>>
     ELSE << << PyInt(time[t_idx]),
                PyFloat(lats[lat_idx]),
                PyFloat(lons[lon_idx]),
                PyFloat(precip[t_idx][lat_idx][lon_idx]),
                file_path >> >>
          \o LonLoop(time, lats, lons, precip, file_path, t_idx,
                     <<lat_idx, lon_idx + 1>>)

\* mutant of LatLoop: the last latitude is left out
RECURSIVE LatLoopDropLast(_, _, _, _, _, _, _)
LatLoopDropLast(time, lats, lons, precip, file_path, t_idx, lat_idx) ==
  IF lat_idx >= Len(lats) THEN <<>>
  ELSE LonLoop(time, lats, lons, precip, file_path, t_idx, <<lat_idx, 1>>)
       \o LatLoopDropLast(time, lats, lons, precip, file_path, t_idx,
                          lat_idx + 1)

RECURSIVE LatLoop(_, _, _, _, _, _, _)
LatLoop(time, lats, lons, precip, file_path, t_idx, lat_idx) ==
  IF lat_idx > Len(lats) THEN <<>>
  ELSE LonLoop(time, lats, lons, precip, file_path, t_idx, <<lat_idx, 1>>)
       \o LatLoop(time, lats, lons, precip, file_path, t_idx, lat_idx + 1)

RECURSIVE TimeLoop(_, _, _, _, _, _)
TimeLoop(time, lats, lons, precip, file_path, t_idx) ==
  IF t_idx > Len(time) THEN <<>>
  ELSE LatLoop(time, lats, lons, precip, file_path, t_idx, 1)
       \o TimeLoop(time, lats, lons, precip, file_path, t_idx + 1)

\* The result is the row list, or the error raised by int(t) on a masked time
\* (raised in the first iteration that reaches it, i.e. only if a row exists).
process_netcdf(g, file_path, lim) ==
  LET lats   == Slice(g.latitude, lim)
      lons   == Slice(g.longitude, lim)
      time   == Slice(g.time, lim)
      precip == Slice(g.tp, lim)
      raises == \E t \in 1..Len(time) :
                  /\ PyIntRaises(time[t])
                  /\ Len(lats) > 0 /\ Len(lons) > 0
  IN IF raises THEN [err |-> "MaskError", rows |-> <<>>]
     ELSE [err |-> "none",
           rows |-> TimeLoop(time, lats, lons, precip, file_path, 1)]

\* ------------------------------------------------------------ convert_era5_time
\* datetime arithmetic of the standard library, on proleptic Gregorian
\* ordinals (day 1 is 0001-01-01).
IsLeap(y) == y % 4 = 0 /\ (y % 100 # 0 \/ y % 400 = 0)

DaysInMonth == <<31, 28, 31, 30, 31, 30, 31, 31, 30, 31, 30, 31>>
DaysBeforeMonthTab == <<0, 31, 59, 90, 120, 151, 181, 212, 243, 273, 304, 334>>

DaysBeforeYear(y) ==
  (y - 1) * 365 + ((y - 1) \div 4) - ((y - 1) \div 100) + ((y - 1) \div 400)

DaysBeforeMonth(y, m) ==
  DaysBeforeMonthTab[m] + (IF m > 2 /\ IsLeap(y) THEN 1 ELSE 0)

Ymd2Ord(y, m, d) == DaysBeforeYear(y) + DaysBeforeMonth(y, m) + d

Ord2Ymd(ordinal) ==
  LET n0   == ordinal - 1
      n400 == n0 \div 146097
      r400 == n0 % 146097
      n100 == r400 \div 36524
      r100 == r400 % 36524
      n4   == r100 \div 1461
      r4   == r100 % 1461
      n1   == r4 \div 365
      n    == r4 % 365
      year == n400 * 400 + 1 + n100 * 100 + n4 * 4 + n1
  IN IF n1 = 4 \/ n100 = 4 THEN <<year - 1, 12, 31>>
     ELSE LET leapyear == n1 = 3 /\ (n4 # 24 \/ n100 = 3)
              month0   == (n + 50) \div 32
              prec0    == DaysBeforeMonthTab[month0]
                          + (IF month0 > 2 /\ leapyear THEN 1 ELSE 0)
              month    == IF prec0 > n THEN month0 - 1 ELSE month0
              prec     == IF prec0 > n
                          THEN prec0 - (DaysInMonth[month]
                                 + (IF month = 2 /\ leapyear THEN 1 ELSE 0))
                          ELSE prec0
          IN <<year, month, n - prec + 1>>

\* datetime(1900, 1, 1)
reference_date == [year |-> 1900, month |-> 1, day |-> 1, hour |-> 0]

\* mutant of TimedeltaHours: the count is taken as seconds
TimedeltaSeconds(h) == [days |-> h \div 86400, seconds |-> h % 86400]

\* timedelta(hours=h), normalised to days and seconds of the day
TimedeltaHours(h) == [days |-> h \div 24, seconds |-> (h % 24) * 3600]

\* datetime + timedelta
DatetimeAdd(dt, delta) ==
  LET secs == dt.hour * 3600 + delta.seconds
      days == Ymd2Ord(dt.year, dt.month, dt.day) + delta.days + (secs \div 86400)
      ymd  == Ord2Ymd(days)
  IN [year |-> ymd[1], month |-> ymd[2], day |-> ymd[3],
      hour |-> (secs % 86400) \div 3600]

convert_era5_time(hours_since_1900) ==
  DatetimeAdd(reference_date, TimedeltaHours(hours_since_1900))

\* datetime.__lt__: comparison of the field tuples
DatetimeLess(a, b) ==
  \/ a.year < b.year
  \/ a.year = b.year /\ a.month < b.month
  \/ a.year = b.year /\ a.month = b.month /\ a.day < b.day
  \/ a.year = b.year /\ a.month = b.month /\ a.day = b.day /\ a.hour < b.hour

\* ----------------------------------------------- idle values of unused state
PipeIdle ==
  /\ in_prefix = <<>> /\ ndates = 0 /\ limit = None /\ use_parallel = FALSE
  /\ overwriteMode = "static" /\ exists = <<>>
  /\ mask = [date |-> 0, kind |-> "none"]
  /\ pc = "idle" /\ cur = 0 /\ fileOpen = {} /\ file_content = 0 /\ ds = 0
  /\ rows = <<>> /\ taskRows = <<>> /\ df = <<>> /\ store = <<>>
  /\ log = <<>> /\ trace = {} /\ fault = "none" /\ run = 0
  /\ store0 = <<>> /\ first = <<>>

FlatIdle == grid = MakeGrid(1, 0, 0, 0, "none") /\ flimit = None
            /\ result = [err |-> "idle", rows |-> <<>>]

TimeIdle == ha = 0 /\ hb = 0 /\ ta = reference_date /\ tb = reference_date

\* ------------------------------------------------------------- path strings
in_suffix == <<"total_precipitation", "surface.nc">>
output_path == <<"out">>

DayNames == <<"01", "02", "03", "04", "05">>
DashNames == <<"2024-01-01", "2024-01-02", "2024-01-03", "2024-01-04",
               "2024-01-05">>

\* date.strftime('%Y/%m/%d') and date.strftime('%Y-%m-%d') of the d-th date
StrftimeSlash(d) == <<"2024", "01", DayNames[d]>>
StrftimeDash(d) == <<DashNames[d]>>

\* os.path.join(a, b) on strings without "/" inside b
Join2(path, b) ==
  IF path[Len(path)] = "" THEN [path EXCEPT ![Len(path)] = b]
  ELSE Append(path, b)

RECURSIVE JoinFrom(_, _, _)
JoinFrom(path, parts, k) ==
  IF k > Len(parts) THEN path
  ELSE JoinFrom(Join2(path, parts[k]), parts, k + 1)

\* os.path.join(*parts): a TypeError without a first argument
OsPathJoinRaises(parts) == Len(parts) = 0
OsPathJoin(parts) == JoinFrom(<<parts[1]>>, parts, 2)

\* in_prefix.split('/')[2] and in_prefix.split('/')[3:]
BucketRaises == Len(in_prefix) < 3
bucket_name == in_prefix[3]
KeyParts == SubSeq(in_prefix, 4, Len(in_prefix))

SeqPathRaises == BucketRaises \/ OsPathJoinRaises(KeyParts)
file_path(d) == OsPathJoin(KeyParts) \o StrftimeSlash(d) \o in_suffix
full_path(d) == <<"gs:", "", bucket_name>> \o file_path(d)
output_file(d) == output_path \o StrftimeDash(d)

\* parallel mode: the path handed to binaryFiles, and the name binaryFiles
\* reports for it (the scheme and authority, then the non-empty segments)
input_file(d) == in_prefix \o StrftimeSlash(d) \o in_suffix
BinaryFilesName(p) ==
  SubSeq(p, 1, 3) \o SelectSeq(SubSeq(p, 4, Len(p)), LAMBDA seg : seg # "")

\* ------------------------------------------------------------ source objects
\* The object of date d decodes to a grid of 2 times, 1 latitude, 2 longitudes
SourceGrid(d) ==
  MakeGrid(d, 2, 1, 2, IF mask.date = d THEN mask.kind ELSE "none")

\* --------------------------------------------------- DataFrame and transforms
h3_index(lat, lon) == [res |-> 9, lat |-> lat, lon |-> lon]

TransformRow(r) ==
  [ timestamp     |-> convert_era5_time(r[1]),
    latitude      |-> r[2],
    longitude     |-> r[3],
    precipitation |-> r[4],
    file_path     |-> r[5],
    h3_index      |-> h3_index(r[2], r[3]) ]

\* createDataFrame(rows, schema) followed by the two withColumn calls
CreateDataFrame(rws) == [k \in 1..Len(rws) |-> TransformRow(rws[k])]

\* ------------------------------------------------------------------ the store
\* Destination 0 is output_path, destination d is output_file(d) below it.
\* A destination holds a set of partitions [key, rows].
Dests == 0..NDates
IsUnder(p, dest) == dest = 0 /\ p # 0

Keys(frame) == { frame[k].timestamp : k \in 1..Len(frame) }
Partitions(frame) ==
  { [key |-> key, rows |-> SelectSeq(frame, LAMBDA r : r.timestamp = key)] :
      key \in Keys(frame) }

\* mutant of ParquetOverwrite: mode="append" adds the rows to what is stored
ParquetAppend(st, dest, frame) ==
  [st EXCEPT ![dest] =
     { q \in st[dest] : q.key \notin Keys(frame) }
     \cup { [key |-> n.key,
             rows |-> (IF \E q \in st[dest] : q.key = n.key
                       THEN (CHOOSE q \in st[dest] : q.key = n.key).rows
                       ELSE <<>>) \o n.rows] : n \in Partitions(frame) }]

\* df.write.partitionBy("timestamp").parquet(dest, mode="overwrite"):
\* static partitionOverwriteMode (the engine's default) deletes the whole
\* destination first, dynamic replaces only the partitions being written.
ParquetOverwrite(st, dest, frame) ==
  IF overwriteMode = "static"
  THEN [p \in DOMAIN st |->
          IF p = dest THEN Partitions(frame)
          ELSE IF IsUnder(p, dest) THEN {} ELSE st[p]]
  ELSE [st EXCEPT ![dest] =
          { q \in st[dest] : q.key \notin Keys(frame) } \cup Partitions(frame)]

\* what a failed write job can leave behind: nothing is cleaned up
FailedWriteStores(st, dest) ==
  {st} \cup (IF overwriteMode = "static"
             THEN { [p \in DOMAIN st |->
                       IF p = dest \/ IsUnder(p, dest) THEN {} ELSE st[p]] }
             ELSE {})

StaleRow(h) ==
  [ timestamp     |-> convert_era5_time(h),
    latitude      |-> Float(0),
    longitude     |-> Float(0),
    precipitation |-> Float(0),
    file_path     |-> <<"old">>,
    h3_index      |-> h3_index(Float(0), Float(0)) ]

\* earlier output: one partition whose key the first date writes again
\* (hour 0) and one whose key no date of the range writes (hour -1)
StalePartitions ==
  { [key |-> convert_era5_time(h), rows |-> <<StaleRow(h)>>] : h \in {0 - 1, 0} }

\* ------------------------------------------------------------ orchestrator
Prefixes == { <<"gs:", "", "bkt", "raw", "single_level">>, <<"gs:", "", "bkt">> }
PipeLimits == { None, Some(1) }
Masks(n) == { [date |-> 0, kind |-> "none"] }
            \cup { [date |-> d, kind |-> k] : d \in 1..n, k \in {"tp", "time"} }

NoFirst == [done |-> FALSE, use_parallel |-> FALSE, store |-> <<>>,
            df |-> <<>>, log |-> <<>>]
PendingTasks(n) == [d \in 1..n |-> [done |-> FALSE, rows |-> <<>>]]

Init ==
  /\ in_prefix \in Prefixes
  /\ ndates \in 1..NDates
  /\ limit \in PipeLimits
  /\ use_parallel \in BOOLEAN
  /\ overwriteMode \in {"static", "dynamic"}
  /\ exists \in [1..ndates -> BOOLEAN]
  /\ mask \in Masks(ndates)
  /\ pc = "start" /\ cur = 0 /\ fileOpen = {} /\ file_content = 0 /\ ds = 0
  /\ rows = <<>> /\ taskRows = PendingTasks(ndates) /\ df = <<>>
  /\ store \in { [p \in Dests |-> {}], [p \in Dests |-> StalePartitions] }
  /\ store0 = store
  /\ log = <<>> /\ trace = {} /\ fault = "none"
  /\ run = 1 /\ first = NoFirst
  /\ FlatIdle /\ TimeIdle

argVars == <<in_prefix, ndates, limit, overwriteMode, exists, mask>>
runVars == <<run, store0, first>>
fnVars == <<flatVars, timeVars>>

\* mutant of Propagate: the loop body catches the exception and goes on
SwallowAndContinue(kind) == [pc |-> "for", fault |-> kind]

\* main has no try/except: an exception leaves main and ends the run
Propagate(kind) == [pc |-> "failed", fault |-> kind]

Raise(kind) == pc' = Propagate(kind).pc /\ fault' = Propagate(kind).fault

\* lines 55-57: the date range and the mode dispatch
Main ==
  /\ pc = "start"
  /\ pc' = IF use_parallel THEN "job" ELSE "for"
  /\ UNCHANGED <<argVars, use_parallel, cur, fileOpen, file_content, ds, rows,
                 taskRows, df, store, log, trace, fault, runVars, fnVars>>

\* lines 80-84: the next date of the loop and its paths
SeqFor ==
  /\ pc = "for" /\ ~use_parallel /\ cur < ndates
  /\ cur' = cur + 1
  /\ IF SeqPathRaises THEN Raise("TypeError")
     ELSE pc' = "check" /\ fault' = fault
  /\ UNCHANGED <<argVars, use_parallel, fileOpen, file_content, ds, rows,
                 taskRows, df, store, log, trace, runVars, fnVars>>

\* the loop is exhausted: main returns and its locals are dropped
SeqReturn ==
  /\ pc = "for" /\ ~use_parallel /\ cur = ndates
  /\ pc' = "done" /\ ds' = 0 /\ file_content' = 0 /\ rows' = <<>>
  /\ UNCHANGED <<argVars, use_parallel, cur, fileOpen, taskRows, df, store,
                 log, trace, fault, runVars, fnVars>>

\* mutant of ExistsBranch: the result of the check is ignored
ExistsBranchIgnored(found) == [pc |-> "open", msg |-> "Processing"]

\* lines 86-87 and 109-110: the branch on the result of check_file_exists
ExistsBranch(found) ==
  IF found THEN [pc |-> "open", msg |-> "Processing"]
  ELSE [pc |-> "for", msg |-> "File does not exist"]

\* line 86 with check_file_exists (13-17), and the branch taken
CheckFileExists ==
  /\ pc = "check"
  /\ trace' = trace \cup {<<"exists", cur>>}
  /\ \/ Raise("IOFault") /\ log' = log
     \/ /\ log' = Append(log, <<ExistsBranch(exists[cur]).msg, full_path(cur)>>)
        /\ pc' = ExistsBranch(exists[cur]).pc /\ fault' = fault
  /\ UNCHANGED <<argVars, use_parallel, cur, fileOpen, file_content, ds, rows,
                 taskRows, df, store, runVars, fnVars>>

\* lines 88-89: fs.open(full_path, 'rb') enters the with block
OpenObject ==
  /\ pc = "open"
  /\ trace' = trace \cup {<<"open", cur>>}
  /\ \/ Raise("IOFault") /\ fileOpen' = fileOpen
     \/ fileOpen' = fileOpen \cup {cur} /\ pc' = "read" /\ fault' = fault
  /\ UNCHANGED <<argVars, use_parallel, cur, file_content, ds, rows, taskRows,
                 df, store, log, runVars, fnVars>>

\* line 90 and the exit of the with block, which closes the object either way
ReadObject ==
  /\ pc = "read"
  /\ trace' = trace \cup {<<"read", cur>>}
  /\ fileOpen' = fileOpen \ {cur}
  /\ \/ Raise("IOFault") /\ file_content' = file_content
     \/ file_content' = cur /\ pc' = "decode" /\ fault' = fault
  /\ UNCHANGED <<argVars, use_parallel, cur, ds, rows, taskRows, df, store,
                 log, runVars, fnVars>>

\* line 91 with read_netcdf (19-21): ds is rebound to the new Dataset, which
\* drops the previous one; nothing closes the new one
ReadNetcdf ==
  /\ pc = "decode"
  /\ \/ Raise("DecodeFault") /\ ds' = ds
     \/ ds' = file_content /\ pc' = "flatten" /\ fault' = fault
  /\ UNCHANGED <<argVars, use_parallel, cur, fileOpen, file_content, rows,
                 taskRows, df, store, log, trace, runVars, fnVars>>

\* line 92
Flatten ==
  /\ pc = "flatten"
  /\ LET r == process_netcdf(SourceGrid(ds), full_path(cur), limit)
     IN IF r.err # "none" THEN Raise("IntegrityFault") /\ rows' = rows
        ELSE rows' = r.rows /\ pc' = "write" /\ fault' = fault
  /\ UNCHANGED <<argVars, use_parallel, cur, fileOpen, file_content, ds,
                 taskRows, df, store, log, trace, runVars, fnVars>>

\* lines 94-108: the DataFrame of the date and its partitioned write
SeqWrite ==
  /\ pc = "write"
  /\ df' = CreateDataFrame(rows)
  /\ trace' = trace \cup {<<"write", cur>>}
  /\ \/ /\ Raise("IOFault")
        /\ store' \in FailedWriteStores(store, cur)
        /\ log' = log
     \/ /\ store' = ParquetOverwrite(store, cur, df')
        /\ log' = Append(log, <<"Written to", output_file(cur)>>)
        /\ pc' = "for" /\ fault' = fault
  /\ UNCHANGED <<argVars, use_parallel, cur, fileOpen, file_content, ds, rows,
                 taskRows, runVars, fnVars>>

\* line 60: binaryFiles over a list with a missing object fails the job
ParMissing ==
  /\ pc = "job" /\ use_parallel
  /\ \E d \in 1..ndates : ~exists[d]
  /\ Raise("IOFault")
  /\ store' \in FailedWriteStores(store, 0)
  /\ UNCHANGED <<argVars, use_parallel, cur, fileOpen, file_content, ds, rows,
                 taskRows, df, log, trace, runVars, fnVars>>

\* lines 60-62: one task per file, in any order; the Dataset of a task is a
\* temporary of the lambda
ParTask(d) ==
  /\ pc = "job" /\ use_parallel
  /\ \A e \in 1..ndates : exists[e]
  /\ ~taskRows[d].done
  /\ trace' = trace \cup {<<"read", d>>}
  /\ LET r == process_netcdf(SourceGrid(d), BinaryFilesName(input_file(d)), limit)
     IN \/ /\ Raise("IOFault")
           /\ taskRows' = taskRows
           /\ store' \in FailedWriteStores(store, 0)
        \/ /\ r.err # "none"
           /\ Raise("IntegrityFault")
           /\ taskRows' = taskRows
           /\ store' \in FailedWriteStores(store, 0)
        \/ /\ r.err = "none"
           /\ taskRows' = [taskRows EXCEPT ![d] = [done |-> TRUE, rows |-> r.rows]]
           /\ pc' = pc /\ fault' = fault /\ store' = store
  /\ UNCHANGED <<argVars, use_parallel, cur, fileOpen, file_content, ds, rows,
                 df, log, runVars, fnVars>>

RECURSIVE UnionRows(_, _)
UnionRows(tasks, d) ==
  IF d > Len(tasks) THEN <<>> ELSE tasks[d].rows \o UnionRows(tasks, d + 1)

\* lines 72-77: the union of the tasks' rows and the single write
ParWrite ==
  /\ pc = "job" /\ use_parallel
  /\ \A d \in 1..ndates : taskRows[d].done
  /\ df' = CreateDataFrame(UnionRows(taskRows, 1))
  /\ trace' = trace \cup {<<"write", 0>>}
  /\ \/ /\ Raise("IOFault")
        /\ store' \in FailedWriteStores(store, 0)
        /\ log' = log
     \/ /\ store' = ParquetOverwrite(store, 0, df')
        /\ log' = Append(log, <<"Written to", output_path>>)
        /\ pc' = "done" /\ fault' = fault
  /\ UNCHANGED <<argVars, use_parallel, cur, fileOpen, file_content, ds, rows,
                 taskRows, runVars, fnVars>>

\* the script is invoked again with the same arguments, in mode m
SecondRun(m) ==
  /\ pc = "done" /\ run = 1
  /\ run' = 2
  /\ first' = [done |-> TRUE, use_parallel |-> use_parallel, store |-> store,
               df |-> df, log |-> log]
  /\ store0' = store
  /\ use_parallel' = m
  /\ pc' = "start" /\ cur' = 0 /\ ds' = 0 /\ file_content' = 0
  /\ rows' = <<>> /\ taskRows' = PendingTasks(ndates) /\ df' = <<>>
  /\ log' = <<>> /\ trace' = {} /\ fault' = "none"
  /\ UNCHANGED <<argVars, fileOpen, store, fnVars>>

Next ==
  \/ Main
  \/ SeqFor \/ SeqReturn \/ CheckFileExists \/ OpenObject \/ ReadObject
  \/ ReadNetcdf \/ Flatten \/ SeqWrite
  \/ ParMissing \/ (\E d \in 1..ndates : ParTask(d)) \/ ParWrite
  \/ (\E m \in BOOLEAN : SecondRun(m))

Spec == Init /\ [][Next]_vars

\* ------------------------------------------- specification of process_netcdf
DimChoices == (1..MaxDim) \cup {5}
LimitChoices == {None} \cup {Some(n) : n \in (0 - MaxDim)..(MaxDim + 1)}
FlatPath == <<"gs:", "", "bkt", "f.nc">>

InitFlatten ==
  /\ \E T \in DimChoices, La \in DimChoices, Lo \in DimChoices,
        mk \in {"none", "tp", "time"} :
       grid = MakeGrid(1, T, La, Lo, mk)
  /\ flimit \in LimitChoices
  /\ result = [err |-> "pending", rows |-> <<>>]
  /\ PipeIdle /\ TimeIdle

CallProcessNetcdf ==
  /\ result.err = "pending"
  /\ result' = process_netcdf(grid, FlatPath, flimit)
  /\ UNCHANGED <<grid, flimit>>
  /\ UNCHANGED pipeVars /\ UNCHANGED timeVars

NextFlatten == CallProcessNetcdf

SpecFlatten == InitFlatten /\ [][NextFlatten]_vars

\* ---------------------------------------- specification of convert_era5_time
\* Hours since 1900-01-01 at which the calendar rolls over: the epoch, the
\* end of February 1900 (not a leap year), new year 1901, the end of February
\* 2000 and 2024 (leap years), and new year 2025.
Landmarks ==
  { (Ymd2Ord(ymd[1], ymd[2], ymd[3]) - Ymd2Ord(1900, 1, 1)) * 24 :
      ymd \in { <<1900, 1, 1>>, <<1900, 3, 1>>, <<1901, 1, 1>>,
                <<2000, 2, 29>>, <<2024, 3, 1>>, <<2025, 1, 1>> } }

HourSamples ==
  UNION { (b - HourWindow)..(b + HourWindow) : b \in Landmarks }

InitTime ==
  /\ ha \in HourSamples /\ hb \in HourSamples
  /\ ta = [year |-> 0, month |-> 0, day |-> 0, hour |-> 0]
  /\ tb = [year |-> 0, month |-> 0, day |-> 0, hour |-> 0]
  /\ PipeIdle /\ FlatIdle

CallConvertEra5Time ==
  /\ ta.year = 0
  /\ ta' = convert_era5_time(ha)
  /\ tb' = convert_era5_time(hb)
  /\ UNCHANGED <<ha, hb>>
  /\ UNCHANGED pipeVars /\ UNCHANGED flatVars

NextTime == CallConvertEra5Time

SpecTime == InitTime /\ [][NextTime]_vars

\* ===================================================================== claims

Returned == result.err = "none"
GT == Len(grid.time)
GLa == Len(grid.latitude)
GLo == Len(grid.longitude)
NoMaskedTime == \A t \in 1..GT : ~grid.time[t].masked

\* C2: without a limit process_netcdf returns len(time)*len(latitude)*
\* len(longitude) rows, and the row of index triple (t, i, j) stands at
\* position (t*len(latitude) + i)*len(longitude) + j and carries the grid's
\* values at that triple and the file path.
C2_FlattenRowsAndOrder ==
  (result.err # "pending" /\ ~flimit.set /\ NoMaskedTime) =>
    /\ Returned
    /\ Len(result.rows) = GT * GLa * GLo
    /\ \A t \in 0..(GT - 1), i \in 0..(GLa - 1), j \in 0..(GLo - 1) :
         LET row == result.rows[(t * GLa + i) * GLo + j + 1]
             c   == grid.tp[t + 1][i + 1][j + 1]
         IN /\ row[1] = grid.time[t + 1].v
            /\ row[2] = Float(grid.latitude[i + 1].v)
            /\ row[3] = Float(grid.longitude[j + 1].v)
            /\ row[4].nan = c.masked
            /\ (~c.masked => row[4].v = c.v)
            /\ row[5] = FlatPath

C2_Witness ==
  /\ Returned /\ ~flimit.set
  /\ GT = 2 /\ GLa = MaxDim /\ GLo = 5
  /\ Len(result.rows) = 10 * MaxDim

\* C3 as stated: with a limit the number of rows is
\* min(limit, len(time)) * min(limit, len(latitude)) * min(limit, len(longitude)).
C3_RowsAreMinProduct ==
  (Returned /\ flimit.set) =>
    Len(result.rows) =
      Min(flimit.n, GT) * Min(flimit.n, GLa) * Min(flimit.n, GLo)

\* C3 amended: for a limit >= 0 each dimension keeps min(limit, len) elements
\* and the number of rows is the product of the three; for a limit < 0 each
\* dimension loses its last -limit elements (max(0, len + limit) remain).
C3_RowsPerDimensionSlice ==
  (Returned /\ flimit.set) =>
    /\ flimit.n >= 0 =>
         Len(result.rows) =
           Min(flimit.n, GT) * Min(flimit.n, GLa) * Min(flimit.n, GLo)
    /\ flimit.n < 0 =>
         Len(result.rows) =
           Max(0, GT + flimit.n) * Max(0, GLa + flimit.n) * Max(0, GLo + flimit.n)

\* limit=2 on a 5 x 5 x 5 grid yields 8 rows
C3_Witness ==
  /\ Returned /\ flimit = Some(2)
  /\ GT = 5 /\ GLa = 5 /\ GLo = 5
  /\ Len(result.rows) = 8

Converted == ta.year # 0

\* hours from the reference instant to a calendar instant
HoursSinceReference(dt) ==
  (Ymd2Ord(dt.year, dt.month, dt.day) - Ymd2Ord(1900, 1, 1)) * 24 + dt.hour

ValidDatetime(dt) ==
  /\ dt.month \in 1..12
  /\ dt.day \in 1..(DaysInMonth[dt.month]
                    + (IF dt.month = 2 /\ IsLeap(dt.year) THEN 1 ELSE 0))
  /\ dt.hour \in 0..23

SeqDone == pc = "done" /\ ~use_parallel
Present == { d \in 1..ndates : exists[d] }
Absent == { d \in 1..ndates : ~exists[d] }
\* what the script derives from the object of date d in sequential mode
ExpectedFrame(d) ==
  CreateDataFrame(process_netcdf(SourceGrid(d), full_path(d), limit).rows)
LogIndex(msg) == { k \in 1..Len(log) : log[k] = msg }
LastWritten == Len(log) > 0 /\ log[Len(log)][1] = "Written to"

\* C1: a sequential run that ends without a fault has written under the
\* date directory of every date whose object exists and under no other
\* destination, has reported "File does not exist" for every other date of
\* the range, and has processed the existing dates that follow a skipped one.
C1_SkipAbsentAndContinue ==
  SeqDone =>
    /\ { e[2] : e \in { x \in trace : x[1] = "write" } } = Present
    /\ \A d \in Present :
         /\ Partitions(ExpectedFrame(d)) \subseteq store[d]
         /\ LogIndex(<<"Written to", output_file(d)>>) # {}
    /\ \A d \in Absent :
         /\ store[d] = store0[d]
         /\ LogIndex(<<"File does not exist", full_path(d)>>) # {}
         /\ LogIndex(<<"Written to", output_file(d)>>) = {}
         /\ \A e \in Present : e > d =>
              \E i \in LogIndex(<<"File does not exist", full_path(d)>>),
                 j \in LogIndex(<<"Written to", output_file(e)>>) : i < j
    /\ \A p \in Dests \ (1..ndates) : store[p] = store0[p]

\* the range D1, D2, D3 with D2 absent, over earlier output
C1_Witness ==
  /\ SeqDone /\ ndates = 3 /\ run = 1
  /\ exists = <<TRUE, FALSE, TRUE>>
  /\ store0[2] = StalePartitions /\ store[2] = StalePartitions
  /\ store[1] # store0[1] /\ store[3] # {}
  /\ Len(log) = 5

\* the step of a write that succeeded, and its destination
WriteSucceeds ==
  \/ pc = "write" /\ pc' = "for"
  \/ pc = "job" /\ pc' = "done"
WriteDest == IF use_parallel THEN 0 ELSE cur

\* C4 as stated: every write replaces the partitions whose key occurs in the
\* new data and leaves every other partition of the destination unchanged.
C4_OtherPartitionsUntouched ==
  [][WriteSucceeds =>
       /\ \A q \in store'[WriteDest] :
            q.key \in Keys(df') => q \in Partitions(df')
       /\ Partitions(df') \subseteq store'[WriteDest]
       /\ \A q \in store[WriteDest] :
            q.key \notin Keys(df') => q \in store'[WriteDest]]_vars

\* C4 amended: every write replaces the partitions whose key occurs in the
\* new data; the partitions of the destination with other keys are left
\* unchanged only under dynamic partitionOverwriteMode, and under the static
\* mode (the default, which the script does not change) they are deleted
\* with everything else below the destination, which then holds exactly the
\* new data.  Destinations that are not below the written one are unchanged.
C4_OverwriteByMode ==
  [][WriteSucceeds =>
       /\ \A q \in store'[WriteDest] :
            q.key \in Keys(df') => q \in Partitions(df')
       /\ Partitions(df') \subseteq store'[WriteDest]
       /\ overwriteMode = "dynamic" =>
            /\ \A q \in store[WriteDest] :
                 q.key \notin Keys(df') => q \in store'[WriteDest]
            /\ store'[WriteDest] \subseteq store[WriteDest] \cup Partitions(df')
            /\ \A p \in Dests \ {WriteDest} : store'[p] = store[p]
       /\ overwriteMode = "static" =>
            /\ store'[WriteDest] = Partitions(df')
            /\ \A p \in Dests \ {WriteDest} :
                 store'[p] = IF IsUnder(p, WriteDest) THEN {} ELSE store[p]]_vars

\* a write over earlier output has dropped a partition it did not rewrite
C4_Witness ==
  /\ overwriteMode = "static" /\ run = 1 /\ LastWritten /\ ~use_parallel
  /\ cur = 1 /\ pc = "for"
  /\ \E q \in store0[1] : q.key \notin Keys(df) /\ q \notin store[1]
  /\ \E q \in store0[1] : q.key \in Keys(df) /\ q \notin store[1]
  /\ store[1] = Partitions(df)

EnvFaults == {"IOFault", "DecodeFault"}
CrossModeRun ==
  /\ run = 2 /\ first.use_parallel # use_parallel
  /\ ndates = 1 /\ exists[1]

\* C5: for a single date whose object exists, the run in the other mode
\* over the same arguments and source ends, unless the environment fails it,
\* with the same table as the first run, row for row.
C5_ModesAgree ==
  (CrossModeRun /\ pc \in {"done", "failed"} /\ fault \notin EnvFaults) =>
    /\ pc = "done"
    /\ df = first.df

\* C6: after a second run in the same mode over the same range, arguments
\* and source objects, every destination holds the partitions and rows it
\* held after the first run.
C6_SecondRunIdempotent ==
  (run = 2 /\ pc = "done" /\ first.use_parallel = use_parallel) =>
    /\ store = first.store
    /\ df = first.df

C6_Witness ==
  /\ run = 2 /\ pc = "done" /\ first.use_parallel = use_parallel
  /\ ndates = NDates /\ Present # {} /\ (use_parallel \/ Absent # {})
  /\ \E p \in Dests : store[p] # {} /\ store[p] # StalePartitions
  /\ \E p \in Dests : StalePartitions \subseteq store[p]

HasNaN(r) == r.latitude.nan \/ r.longitude.nan \/ r.precipitation.nan

\* C8: no written partition holds a row with a null/NaN field; a file that
\* decodes to a missing value fails instead.
C8_NoNaNRowWritten ==
  \A p \in Dests : \A q \in store[p] : \A k \in 1..Len(q.rows) :
    ~HasNaN(q.rows[k])

\* C9: in sequential mode a fault at date Di ends the run with that fault:
\* no later date has been existence-checked, read or written, and what the
\* dates before Di wrote is still in place.
C9_FaultHaltsRun ==
  (~use_parallel /\ fault # "none") =>
    /\ pc = "failed"
    /\ cur \in 1..ndates
    /\ \A e \in trace : e[2] <= cur
    /\ \A d \in 1..(cur - 1) :
         IF exists[d] THEN Partitions(ExpectedFrame(d)) \subseteq store[d]
         ELSE store[d] = store0[d]
    /\ \A d \in (cur + 1)..NDates : store[d] = store0[d]
    /\ store[0] = store0[0]

C9_Witness ==
  /\ ~use_parallel /\ pc = "failed" /\ fault = "IOFault" /\ run = 1
  /\ ndates = 3 /\ cur = 2 /\ exists[1] /\ exists[3]
  /\ <<"write", 2>> \in trace
  /\ store[1] = Partitions(ExpectedFrame(1)) /\ store[3] = store0[3]

\* C10: in sequential mode no storage object and no decoded grid of a date
\* is still open when the loop turns to the next date or when the run ends.
C10_HandlesReleased ==
  (~use_parallel /\ pc \in {"for", "check", "done"}) =>
    /\ fileOpen = {}
    /\ ds = 0

====
